---- MODULE Spec2Model ----
(***************************************************************************)
(* A model of src/server.js: an Express application that proxies the CWA   *)
(* 36-hour forecast dataset F-C0032-001 for five fixed cities.             *)
(*                                                                         *)
(* Strings of the source that are not ASCII are written in ASCII here, the *)
(* original given in a comment beside each: the module's lexer takes ASCII *)
(* strings only.                                                           *)
(***************************************************************************)
EXTENDS Integers, Sequences, FiniteSets, TLC

(***************************************************************************)
(* Bounds of the model.                                                    *)
(***************************************************************************)
\* Inbound requests that may be in flight together.
NumReqs == 2
\* Longest location collection of an upstream payload.
MaxLocs == 2
\* Longest weatherElement list of a location.
MaxElems == 2
\* Longest time sequence of a weather element.
MaxTime == 2

Requests == 1..NumReqs

(***************************************************************************)
(* JavaScript values.  Every value is a record tagged by its type, so that *)
(* values of different types can be compared and told apart.               *)
(***************************************************************************)
Undefined == [t |-> "undefined"]
Null == [t |-> "null"]
Str(s) == [t |-> "string", v |-> s]
Num(n) == [t |-> "number", n |-> n]
\* f: a function from property names to values.
Obj(f) == [t |-> "object", f |-> f]
Arr(items) == [t |-> "array", items |-> items]
\* An object without properties.
EmptyObj == Obj([k \in {} |-> Undefined])

\* Reading a property of null or undefined throws a TypeError.
IsNullish(x) == x.t \in {"null", "undefined"}

\* ToBoolean, as `!x`, `x && y` and `x || y` apply it.
Truthy(x) ==
    CASE x.t \in {"null", "undefined"} -> FALSE
      [] x.t = "string" -> x.v # ""
      [] x.t = "number" -> x.n # 0
      [] OTHER -> TRUE

\* x[k] for a property name k, x not nullish.
Get(x, k) ==
    IF x.t = "object" /\ k \in DOMAIN x.f THEN x.f[k] ELSE Undefined

\* x[i] for a 0-based index i, x not nullish.
Index(x, i) ==
    IF x.t = "array" /\ i + 1 \in DOMAIN x.items THEN x.items[i + 1] ELSE Undefined

IsArray(x) == x.t = "array"

\* x.length where the loop bound reads it: an array's length; `i < undefined`
\* is false for every i, so a value without a length runs the loop 0 times.
LengthOf(x) == IF x.t = "array" THEN Len(x.items) ELSE 0

\* x + suffix, the string concatenation of lines 86, 89 and 92.
Concat(x, suffix) ==
    CASE x.t = "string" -> Str(x.v \o suffix)
      [] x.t = "number" -> Str(ToString(x.n) \o suffix)
      [] x.t = "null" -> Str("null" \o suffix)
      [] OTHER -> Str("undefined" \o suffix)

\* The error a property read of null or undefined raises: it carries a
\* message and no `response`.
TypeError == [name |-> "TypeError", message |-> Str("Cannot read properties"),
              response |-> Undefined]

(***************************************************************************)
(* What a block of the handler ends with: a response sent, or an exception *)
(* thrown out of it.                                                       *)
(***************************************************************************)
Sent(res) == [kind |-> "sent", res |-> res]
Threw(err) == [kind |-> "threw", err |-> err]

(***************************************************************************)
(* The configuration and the routes.                                       *)
(***************************************************************************)
\* The values process.env.CWA_API_KEY can have when the module is loaded:
\* unset, set to the empty string, set to a key.
ApiKeyValues == {Undefined, Str(""), Str("CWA-KEY")}

\* The handlers made by the factory, by the path each is registered on.
\* "Taipei City" is 台北市, "Taichung City" 台中市, "Changhua County" 彰化縣,
\* "Kaohsiung City" 高雄市, "Yilan County" 宜蘭縣.
WeatherRoutes ==
    ("/api/weather/taipei" :> "Taipei City")
    @@ ("/api/weather/taichung" :> "Taichung City")
    @@ ("/api/weather/changhua" :> "Changhua County")
    @@ ("/api/weather/kaohsiung" :> "Kaohsiung City")
    @@ ("/api/weather/yilan" :> "Yilan County")

WeatherPaths == DOMAIN WeatherRoutes

\* A path no route is registered on.
UnknownPath == "/api/weather/hualien"

Paths == {"/", "/api/health", UnknownPath} \cup WeatherPaths

(***************************************************************************)
(* getCityWeather: the try block after the awaited call has returned.      *)
(***************************************************************************)
\* `===` of line 46 and of the switch of line 81.
StrictEq(x, y) == x.t = y.t /\ x = y

RECURSIVE FindFrom(_, _, _)
\* locations.find((l) => l.locationName === locationName), from the item at
\* position i on: the first match, undefined when there is none; reading
\* locationName of a null item throws.
FindFrom(items, locationName, i) ==
    IF i > Len(items) THEN [threw |-> FALSE, value |-> Undefined]
    ELSE IF IsNullish(items[i]) THEN [threw |-> TRUE, value |-> Undefined]
    ELSE IF StrictEq(Get(items[i], "locationName"), Str(locationName))
         THEN [threw |-> FALSE, value |-> items[i]]
    ELSE FindFrom(items, locationName, i + 1)

\* Lines 44-47: locationData, or the TypeError that reading it raises.
FindLocation(response, locationName) ==
    LET data == Get(response, "data") IN
    IF IsNullish(data) THEN [threw |-> TRUE, value |-> Undefined]
    ELSE LET records == Get(data, "records")
             locations == IF Truthy(records) THEN Get(records, "location")
                          ELSE records
         IN  IF IsArray(locations) THEN FindFrom(locations.items, locationName, 1)
             ELSE [threw |-> FALSE, value |-> Null]

\* Lines 50-53.  The message is `無法取得 ${locationName} 天氣資料`, the
\* error 查無資料.
NotFoundResponse(locationName) ==
    [status |-> 404,
     body |-> [error |-> Str("no data"),
               message |-> Str("cannot get weather data of " \o locationName)]]

\* The element names the switch of line 81 has a case for.
RecognisedNames == {"Wx", "PoP", "MinT", "MaxT", "CI", "WS"}

\* A faulty variant of line 80: a read that never throws, as with
\* element?.time?.[i]?.parameter.
SlotThrowsNever(element, i) == FALSE

\* Line 80 throws when element, element.time or element.time[i] is nullish.
SlotThrows(element, i) ==
    \/ IsNullish(element)
    \/ IsNullish(Get(element, "time"))
    \/ IsNullish(Index(Get(element, "time"), i))

\* Line 80: element.time[i].parameter.
SlotValue(element, i) == Get(Index(Get(element, "time"), i), "parameter")

\* A faulty variant of the switch: the case PoP appends no suffix.
DispatchBareRain(forecast, elementName, value) ==
    LET raw == Get(value, "parameterName") IN
    CASE StrictEq(elementName, Str("Wx")) -> [forecast EXCEPT !.weather = raw]
      [] StrictEq(elementName, Str("PoP")) -> [forecast EXCEPT !.rain = raw]
      [] StrictEq(elementName, Str("MinT")) -> [forecast EXCEPT !.minTemp = Concat(raw, "degC")]
      [] StrictEq(elementName, Str("MaxT")) -> [forecast EXCEPT !.maxTemp = Concat(raw, "degC")]
      [] StrictEq(elementName, Str("CI")) -> [forecast EXCEPT !.comfort = raw]
      [] StrictEq(elementName, Str("WS")) -> [forecast EXCEPT !.windSpeed = raw]
      [] OTHER -> forecast

\* Lines 81-100: the switch.  "degC" is the suffix °C.
Dispatch(forecast, elementName, value) ==
    LET raw == Get(value, "parameterName") IN
    CASE StrictEq(elementName, Str("Wx")) -> [forecast EXCEPT !.weather = raw]
      [] StrictEq(elementName, Str("PoP")) -> [forecast EXCEPT !.rain = Concat(raw, "%")]
      [] StrictEq(elementName, Str("MinT")) -> [forecast EXCEPT !.minTemp = Concat(raw, "degC")]
      [] StrictEq(elementName, Str("MaxT")) -> [forecast EXCEPT !.maxTemp = Concat(raw, "degC")]
      [] StrictEq(elementName, Str("CI")) -> [forecast EXCEPT !.comfort = raw]
      [] StrictEq(elementName, Str("WS")) -> [forecast EXCEPT !.windSpeed = raw]
      [] OTHER -> forecast

\* Whether the switch takes a case, and so reads value.parameterName.
HasCase(elementName) ==
    elementName.t = "string" /\ elementName.v \in RecognisedNames

RECURSIVE ForEachElement(_, _, _, _)
\* Lines 79-101: weatherElements.forEach from the element at position e on,
\* for time index i.  The forecast, or the exception a read raises.
ForEachElement(forecast, items, i, e) ==
    IF e > Len(items) THEN [threw |-> FALSE, forecast |-> forecast]
    ELSE IF SlotThrows(items[e], i) THEN [threw |-> TRUE, forecast |-> forecast]
    ELSE LET value == SlotValue(items[e], i)
             elementName == Get(items[e], "elementName")
         IN  IF HasCase(elementName) /\ IsNullish(value)
             THEN [threw |-> TRUE, forecast |-> forecast]
             ELSE ForEachElement(Dispatch(forecast, elementName, value), items, i, e + 1)

\* Lines 68-77: the forecast of time index i before the elements are read.
NewForecast(first, i) ==
    [startTime |-> Get(Index(Get(first, "time"), i), "startTime"),
     endTime |-> Get(Index(Get(first, "time"), i), "endTime"),
     weather |-> Str(""), rain |-> Str(""), minTemp |-> Str(""),
     maxTemp |-> Str(""), comfort |-> Str(""), windSpeed |-> Str("")]

\* A faulty variant of line 65: the length of the last element's time
\* sequence.
TimeCountOfLast(weatherElements) ==
    LengthOf(Get(Index(weatherElements, LengthOf(weatherElements) - 1), "time"))

\* Line 65: weatherElements[0].time.length.
TimeCount(weatherElements) == LengthOf(Get(Index(weatherElements, 0), "time"))

\* Line 65 throws when weatherElements, its first item or that item's time
\* is nullish.
TimeCountThrows(weatherElements) ==
    \/ IsNullish(weatherElements)
    \/ IsNullish(Index(weatherElements, 0))
    \/ IsNullish(Get(Index(weatherElements, 0), "time"))

RECURSIVE ForLoop(_, _, _, _)
\* Lines 67-104: the loop from time index i on, forecasts being those pushed
\* so far.
ForLoop(weatherElements, timeCount, i, forecasts) ==
    IF ~(i < timeCount) THEN [threw |-> FALSE, forecasts |-> forecasts]
    ELSE IF IsNullish(Index(Get(Index(weatherElements, 0), "time"), i))
         THEN [threw |-> TRUE, forecasts |-> forecasts]
    ELSE LET done == ForEachElement(NewForecast(Index(weatherElements, 0), i),
                                    weatherElements.items, i, 1)
         IN  IF done.threw THEN [threw |-> TRUE, forecasts |-> forecasts]
             ELSE ForLoop(weatherElements, timeCount, i + 1,
                          Append(forecasts, done.forecast))

\* Lines 56-109: the success payload of a matched location, or the
\* exception raised while building it.
Transform(response, locationData) ==
    LET weatherElements == Get(locationData, "weatherElement") IN
    IF TimeCountThrows(weatherElements) THEN Threw(TypeError)
    ELSE LET loop == ForLoop(weatherElements, TimeCount(weatherElements), 0, <<>>)
         IN  IF loop.threw THEN Threw(TypeError)
             ELSE Sent([status |-> 200,
                        body |-> [success |-> TRUE,
                                  data |-> [city |-> Get(locationData, "locationName"),
                                            updateTime |-> Get(Get(Get(response, "data"), "records"),
                                                               "datasetDescription"),
                                            forecasts |-> loop.forecasts]]])

\* Lines 44-109: the try block from the awaited response on.
TryBlock(locationName, response) ==
    LET found == FindLocation(response, locationName) IN
    IF found.threw THEN Threw(TypeError)
    ELSE IF ~Truthy(found.value) THEN Sent(NotFoundResponse(locationName))
    ELSE Transform(response, found.value)

(***************************************************************************)
(* getCityWeather: the catch block.                                        *)
(***************************************************************************)
\* Lines 123-126.  The error is 伺服器錯誤, the message
\* 無法取得天氣資料，請稍後再試.
GenericErrorResponse ==
    [status |-> 500,
     body |-> [error |-> Str("server error"),
               message |-> Str("cannot get weather data, try again later")]]

\* Lines 115-119.  The error is "CWA API 錯誤", the default message
\* 無法取得天氣資料.
UpstreamErrorResponse(errResponse) ==
    LET data == Get(errResponse, "data") IN
    [status |-> Get(errResponse, "status").n,
     body |-> [error |-> Str("CWA API error"),
               message |-> IF Truthy(Get(data, "message")) THEN Get(data, "message")
                           ELSE Str("cannot get weather data"),
               details |-> data]]

\* Lines 110-127: what the catch block does with the error caught.  Line 117
\* reads error.response.data.message, which throws when data is nullish;
\* nothing has been sent by then.
CatchBlock(error) ==
    IF Truthy(error.response)
    THEN IF IsNullish(Get(error.response, "data")) THEN Threw(TypeError)
         ELSE Sent(UpstreamErrorResponse(error.response))
    ELSE Sent(GenericErrorResponse)

\* Lines 44-127: the handler from the point where the awaited call settles,
\* settled being the call's result.
AfterAwait(locationName, settled) ==
    IF settled.kind = "resolved"
    THEN LET tried == TryBlock(locationName, settled.response) IN
         IF tried.kind = "threw" THEN CatchBlock(tried.err) ELSE tried
    ELSE CatchBlock(settled.error)

\* A faulty variant of the test of line 26: only an unset key counts as
\* missing, an empty one does not.
KeyMissingOnlyUnset(key) == key.t = "undefined"

\* Line 26: !CWA_API_KEY.
KeyMissing(key) == ~Truthy(key)

\* A faulty variant of the response of lines 27-30: no message.
ConfigErrorResponseBare ==
    [status |-> 500, body |-> [error |-> Str("server configuration error")]]

\* Lines 27-30.  The error is 伺服器設定錯誤, the message
\* 請在 .env 檔案中設定 CWA_API_KEY.
ConfigErrorResponse ==
    [status |-> 500,
     body |-> [error |-> Str("server configuration error"),
               message |-> Str("set CWA_API_KEY in the .env file")]]

(***************************************************************************)
(* The other routes and the two trailing middlewares.                      *)
(***************************************************************************)
\* Lines 141-151.  The message is 歡迎使用 CWA 天氣預報 API.
RootResponse ==
    [status |-> 200,
     body |-> [message |-> Str("welcome to the CWA weather forecast API"),
               endpoints |-> [taipei |-> Str("/api/weather/taipei"),
                              taichung |-> Str("/api/weather/taichung"),
                              changhua |-> Str("/api/weather/changhua"),
                              kaohsiung |-> Str("/api/weather/kaohsiung"),
                              yilan |-> Str("/api/weather/yilan"),
                              health |-> Str("/api/health")]]]

\* Line 155; the timestamp is the time of the call, as an ISO 8601 string.
HealthResponse ==
    [status |-> 200,
     body |-> [status |-> Str("OK"), timestamp |-> Str("now, ISO 8601")]]

\* Lines 170-176: the error-handling middleware.
ErrorMiddlewareResponse(err) ==
    [status |-> 500,
     body |-> [error |-> Str("server error"), message |-> err.message]]

\* Lines 179-183: the 404 handler.  The error is 找不到此路徑.
NotFoundHandlerResponse ==
    [status |-> 404, body |-> [error |-> Str("path not found")]]

\* The error express.json() (line 15) passes to next() for a body it cannot
\* parse.
BodyParseFailure == [name |-> "SyntaxError", message |-> Str("Unexpected token"),
                     response |-> Undefined]

(***************************************************************************)
(* What the awaited upstream call (lines 35-42) can settle with.           *)
(***************************************************************************)
\* One slot of an element's time sequence.  The times and the raw value are
\* those of element e, slot k, so that a value read from another element or
\* another slot is a different value.
Slot(e, k) ==
    Obj([startTime |-> Str("start-" \o ToString(e) \o "-" \o ToString(k)),
         endTime |-> Str("end-" \o ToString(e) \o "-" \o ToString(k)),
         parameter |-> Obj([parameterName |-> Str(ToString(10 * e + k))])])

\* The e-th weather element of a location: its name and len slots.
Element(name, len, e) ==
    Obj([elementName |-> Str(name),
         time |-> Arr([k \in 1..len |-> Slot(e, k - 1)])])

\* The names of the dataset's elements the switch knows, and one it does not.
ElementNames == RecognisedNames \cup {"UVI"}

RECURSIVE ElementListsUpTo(_)
\* Every weatherElement list of at most n elements, each of any name and of
\* 0..MaxTime slots.
ElementListsUpTo(n) ==
    IF n = 0 THEN {<<>>}
    ELSE ElementListsUpTo(n - 1)
         \cup {[e \in 1..n |-> Element(f[e][1], f[e][2], e)] :
                   f \in [1..n -> ElementNames \X (0..MaxTime)]}

ElementLists == ElementListsUpTo(MaxElems)

\* Two elements of two slots each: Wx and PoP.
SampleElements == <<Element("Wx", 2, 1), Element("PoP", 2, 2)>>

Location(name, elements) ==
    Obj([locationName |-> Str(name), weatherElement |-> Arr(elements)])

\* The names of the registered locations and of one that is not:
\* "Hualien County" is 花蓮縣.
LocationNames == {WeatherRoutes[p] : p \in WeatherPaths} \cup {"Hualien County"}

\* A response body with records: its description and its location collection.
Dataset(locations) ==
    Obj([records |-> Obj([datasetDescription |-> Str("36-hour forecast"),
                          location |-> locations])])

RECURSIVE LocationListsUpTo(_)
\* Every location collection of at most n entries, each null or a location
\* of any name.
LocationListsUpTo(n) ==
    IF n = 0 THEN {<<>>}
    ELSE LocationListsUpTo(n - 1)
         \cup [1..n -> {Null} \cup {Location(nm, SampleElements) : nm \in LocationNames}]

LocationLists == LocationListsUpTo(MaxLocs)

\* Bodies that differ in the location collection: no body, no records, no
\* collection, a collection that is no array, and every array.
LookupPayloads ==
    {Null, EmptyObj, Obj([records |-> Null]),
     Obj([records |-> Obj([datasetDescription |-> Str("36-hour forecast")])]),
     Dataset(Str("none"))}
    \cup {Dataset(Arr(l)) : l \in LocationLists}

\* Bodies that differ in the elements of their one location, which has the
\* name given; in one the location has no weatherElement.
TransformPayloads(locationName) ==
    {Dataset(Arr(<<Location(locationName, w)>>)) : w \in ElementLists}
    \cup {Dataset(Arr(<<Obj([locationName |-> Str(locationName)])>>))}

\* The call returned with a 2xx response carrying this body.
Resolved(data) ==
    [kind |-> "resolved", response |-> Obj([status |-> Num(200), data |-> data])]

\* The call failed with this error.
Rejected(err) == [kind |-> "rejected", error |-> err]

\* The error of a call that got no response.
NetworkError == [name |-> "AxiosError", message |-> Str("Network Error"),
                 response |-> Undefined]

\* The error of a call the upstream answered with a status outside 2xx.
HttpError(status, data) ==
    [name |-> "AxiosError", message |-> Str("Request failed"),
     response |-> Obj([status |-> Num(status), data |-> data])]

ErrorStatuses == {401, 404, 503}

\* Error bodies: null, the empty string of an empty body, an object without a
\* message and one with a message.
ErrorBodies == {Null, Str(""), EmptyObj, Obj([message |-> Str("Unauthorized")])}

Rejections ==
    {Rejected(NetworkError)}
    \cup {Rejected(HttpError(s, b)) : s \in ErrorStatuses, b \in ErrorBodies}

\* The registered location names.
RegisteredNames == {WeatherRoutes[p] : p \in WeatherPaths}

\* By the location asked for, a few results, the same for every location:
\* for runs of several requests.
SampleResults ==
    [locationName \in RegisteredNames |->
        {Resolved(Dataset(Arr(<<Location("Taipei City", SampleElements)>>))),
         Resolved(Dataset(Arr(<<Location("Yilan County", <<Element("MinT", 1, 1)>>),
                                Location("Taipei City", <<Element("CI", 1, 1)>>)>>))),
         Resolved(EmptyObj),
         Rejected(NetworkError),
         Rejected(HttpError(503, Obj([message |-> Str("Unavailable")]))),
         Rejected(HttpError(404, Null))}]

\* By the location asked for, every result: every location collection, every
\* element list of that location, every failure.  For the run of one request.
AllResults ==
    [locationName \in RegisteredNames |->
        {Resolved(d) : d \in LookupPayloads \cup TransformPayloads(locationName)}
        \cup Rejections]

NotSettled == [kind |-> "none"]

(***************************************************************************)
(* The state.                                                              *)
(***************************************************************************)
VARIABLES
    CWA_API_KEY,        \* line 11: read once, when the module is loaded
    forwardsRejections, \* whether the router passes a rejected handler
                        \* promise to next() (Express 5) or drops it (Express 4)
    pc,                 \* where each request is
    path,               \* the path each request came in on
    invoked,            \* the handlers and middlewares run for each request
    calls,              \* the axios.get calls issued for each request
    settled,            \* what each request's awaited call settled with
    thrown,             \* the error each request's handler promise rejected with
    sent                \* the responses sent for each request, in order

vars == <<CWA_API_KEY, forwardsRejections, pc, path, invoked, calls, settled,
          thrown, sent>>

Init ==
    /\ CWA_API_KEY \in ApiKeyValues
    /\ forwardsRejections \in BOOLEAN
    /\ pc = [r \in Requests |-> "idle"]
    /\ path = [r \in Requests |-> ""]
    /\ invoked = [r \in Requests |-> {}]
    /\ calls = [r \in Requests |-> 0]
    /\ settled = [r \in Requests |-> NotSettled]
    /\ thrown = [r \in Requests |-> Undefined]
    /\ sent = [r \in Requests |-> <<>>]

\* res.status(..).json(..) for request r, by handler h, which ends the
\* handling of r.
Respond(r, h, res) ==
    /\ sent' = [sent EXCEPT ![r] = Append(@, res)]
    /\ invoked' = [invoked EXCEPT ![r] = @ \cup {h}]
    /\ pc' = [pc EXCEPT ![r] = "done"]

\* Line 15: express.json() cannot parse the request's body and passes the
\* error on; no route runs, the error-handling middleware answers.
BodyParseError(r) ==
    /\ pc[r] = "idle"
    /\ \E p \in Paths : path' = [path EXCEPT ![r] = p]
    /\ Respond(r, "errorMiddleware", ErrorMiddlewareResponse(BodyParseFailure))
    /\ UNCHANGED <<CWA_API_KEY, forwardsRejections, calls, settled, thrown>>

\* Lines 140-152.
GetRoot(r) ==
    /\ pc[r] = "idle"
    /\ path' = [path EXCEPT ![r] = "/"]
    /\ Respond(r, "root", RootResponse)
    /\ UNCHANGED <<CWA_API_KEY, forwardsRejections, calls, settled, thrown>>

\* Lines 154-156.
GetHealth(r) ==
    /\ pc[r] = "idle"
    /\ path' = [path EXCEPT ![r] = "/api/health"]
    /\ Respond(r, "health", HealthResponse)
    /\ UNCHANGED <<CWA_API_KEY, forwardsRejections, calls, settled, thrown>>

\* Lines 159-167 and 23-42: a weather route's handler, up to its await.
GetWeather(r) ==
    /\ pc[r] = "idle"
    /\ \E p \in WeatherPaths : path' = [path EXCEPT ![r] = p]
    /\ IF KeyMissing(CWA_API_KEY)
       THEN /\ Respond(r, "getCityWeather", ConfigErrorResponse)
            /\ UNCHANGED calls
       ELSE /\ calls' = [calls EXCEPT ![r] = @ + 1]
            /\ invoked' = [invoked EXCEPT ![r] = @ \cup {"getCityWeather"}]
            /\ pc' = [pc EXCEPT ![r] = "awaiting"]
            /\ UNCHANGED sent
    /\ UNCHANGED <<CWA_API_KEY, forwardsRejections, settled, thrown>>

\* Lines 179-183: no route matches.
NoRoute(r) ==
    /\ pc[r] = "idle"
    /\ path' = [path EXCEPT ![r] = UnknownPath]
    /\ Respond(r, "notFoundHandler", NotFoundHandlerResponse)
    /\ UNCHANGED <<CWA_API_KEY, forwardsRejections, calls, settled, thrown>>

\* A faulty variant of line 35: the result is kept in one variable of the
\* module, which every invocation reads, and holds the result of the first
\* request that has one.
AwaitedShared(all, r) ==
    all[CHOOSE q \in DOMAIN all :
            /\ all[q].kind # "none"
            /\ \A o \in DOMAIN all : o < q => all[o].kind = "none"]

\* Line 35: what `await` hands to the invocation of request r, which keeps
\* it in a const of its own.
Awaited(all, r) == all[r]

\* Lines 44-127 for request r, once settled' holds what its call settled
\* with: the handler sends a response, or an exception leaves its catch block
\* and its promise rejects.
Continuation(r) ==
    \E outcome \in {AfterAwait(WeatherRoutes[path[r]], Awaited(settled', r))} :
        IF outcome.kind = "sent"
        THEN /\ Respond(r, "getCityWeather", outcome.res)
             /\ UNCHANGED thrown
        ELSE /\ thrown' = [thrown EXCEPT ![r] = outcome.err]
             /\ pc' = [pc EXCEPT ![r] = "rejected"]
             /\ UNCHANGED <<invoked, sent>>

\* A faulty variant of the handler: it calls the upstream once more when the
\* call fails.
HandlerResumesRetrying(r, results) ==
    /\ pc[r] = "awaiting"
    /\ \E result \in results[WeatherRoutes[path[r]]] :
           settled' = [settled EXCEPT ![r] = result]
    /\ IF settled'[r].kind = "rejected" /\ calls[r] < 2
       THEN /\ calls' = [calls EXCEPT ![r] = @ + 1]
            /\ UNCHANGED <<pc, invoked, sent, thrown>>
       ELSE /\ Continuation(r)
            /\ UNCHANGED calls
    /\ UNCHANGED <<CWA_API_KEY, forwardsRejections, path>>

\* Lines 35-127: the awaited call settles with one of the results for the
\* handler's location, and the handler goes on.  No other call is issued.
HandlerResumes(r, results) ==
    /\ pc[r] = "awaiting"
    /\ \E result \in results[WeatherRoutes[path[r]]] :
           settled' = [settled EXCEPT ![r] = result]
    /\ Continuation(r)
    /\ UNCHANGED <<CWA_API_KEY, forwardsRejections, path, calls>>

\* Lines 170-176, under a router that passes a rejected handler promise to
\* next(): the error-handling middleware answers.
RejectionForwarded(r) ==
    /\ pc[r] = "rejected"
    /\ forwardsRejections
    /\ Respond(r, "errorMiddleware", ErrorMiddlewareResponse(thrown[r]))
    /\ UNCHANGED <<CWA_API_KEY, forwardsRejections, path, calls, settled, thrown>>

\* Under a router that ignores the handler's promise the rejection is
\* unhandled: nothing else runs for the request and no response is sent.  (A
\* runtime that ends the process on an unhandled rejection leaves the request
\* unanswered as well.)
RejectionUnhandled(r) ==
    /\ pc[r] = "rejected"
    /\ ~forwardsRejections
    /\ pc' = [pc EXCEPT ![r] = "abandoned"]
    /\ UNCHANGED <<CWA_API_KEY, forwardsRejections, path, invoked, calls, settled,
                   thrown, sent>>

\* One step of request r, its upstream call settling with one of results.
Step(r, results) ==
    \/ BodyParseError(r)
    \/ GetRoot(r)
    \/ GetHealth(r)
    \/ GetWeather(r)
    \/ NoRoute(r)
    \/ HandlerResumes(r, results)
    \/ RejectionForwarded(r)
    \/ RejectionUnhandled(r)

\* Requests handled together, in any interleaving.
Next == \E r \in Requests : Step(r, SampleResults)

Spec == Init /\ [][Next]_vars

\* One request handled alone, its upstream call settling with any result.
NextSingle == Step(1, AllResults)

SpecSingle == Init /\ [][NextSingle]_vars

(***************************************************************************)
(* The properties.                                                         *)
(***************************************************************************)
\* The handling of request r has ended: a response was sent, or the
\* rejection of its handler was dropped.
Finished(r) == pc[r] \in {"done", "abandoned"}

\* A weather handler was invoked for request r.
WeatherHandled(r) == "getCityWeather" \in invoked[r]

\* The body of response res has every one of the fields, none undefined.
HasFields(res, fields) ==
    /\ fields \subseteq DOMAIN res.body
    /\ \A f \in fields : res.body[f].t # "undefined"

\* The body the awaited call of request r returned.
DataOf(r) == Get(settled[r].response, "data")

\* The location collection of a body: the entries of records.location when
\* that is an array, none otherwise.
EntriesOf(data) ==
    LET locations == Get(Get(data, "records"), "location") IN
    IF locations.t = "array" THEN locations.items ELSE <<>>

\* Entry l is a location of that name.
IsNamed(l, locationName) ==
    l.t = "object" /\ StrictEq(Get(l, "locationName"), Str(locationName))

\* The first entry of the body's collection with that name.
MatchedLocation(data, locationName) ==
    LET entries == EntriesOf(data) IN
    entries[CHOOSE i \in DOMAIN entries :
               /\ IsNamed(entries[i], locationName)
               /\ \A j \in DOMAIN entries : j < i => ~IsNamed(entries[j], locationName)]

HasMatch(data, locationName) ==
    \E i \in DOMAIN EntriesOf(data) : IsNamed(EntriesOf(data)[i], locationName)

\* The elements of a location, and the time sequence of one element.
ElementsOf(l) ==
    IF Get(l, "weatherElement").t = "array" THEN Get(l, "weatherElement").items ELSE <<>>

TimesOf(element) == Get(element, "time").items

\* Request r got a success response from its weather handler.
Succeeded(r) ==
    /\ WeatherHandled(r)
    /\ pc[r] = "done"
    /\ sent[r][1].status = 200

\* C1: with the credential missing (unset, or empty), a request on any of
\* the five weather routes is answered with one response of status 500 whose
\* body has `error` and `message`, and no upstream call is issued for it.
C1_NoKeyNoCall ==
    \A r \in Requests :
        (~Truthy(CWA_API_KEY) /\ path[r] \in WeatherPaths) =>
            /\ calls[r] = 0
            /\ pc[r] = "done"
            /\ Len(sent[r]) = 1
            /\ sent[r][1].status = 500
            /\ HasFields(sent[r][1], {"error", "message"})

C1_Witness ==
    \E r \in Requests :
        /\ CWA_API_KEY = Undefined
        /\ path[r] = "/api/weather/changhua"
        /\ WeatherHandled(r)
        /\ sent[r] = <<ConfigErrorResponse>>
        /\ calls[r] = 0

\* C2: with the credential set and the upstream call returned, when the
\* location collection has no entry of the route's location name (the
\* collection malformed or absent included), the response is a 404.
C2_NoMatchIs404 ==
    \A r \in Requests :
        (/\ WeatherHandled(r)
         /\ Finished(r)
         /\ settled[r].kind = "resolved"
         /\ ~HasMatch(DataOf(r), WeatherRoutes[path[r]])) =>
            /\ Len(sent[r]) = 1
            /\ sent[r][1].status = 404

\* C3: when the upstream call fails with an error response, the handler
\* answers with the upstream's status and includes the upstream's body,
\* whatever the status and the body.
C3_UpstreamErrorPropagated ==
    \A r \in Requests :
        (/\ WeatherHandled(r)
         /\ Finished(r)
         /\ settled[r].kind = "rejected"
         /\ settled[r].error.response.t = "object") =>
            /\ Len(sent[r]) = 1
            /\ sent[r][1].status = Get(settled[r].error.response, "status").n
            /\ "details" \in DOMAIN sent[r][1].body
            /\ sent[r][1].body.details = Get(settled[r].error.response, "data")

\* C4 as stated: every error response, the one for an unmatched route
\* included, has a body with `error` and `message`.
C4_AllErrorsHaveErrorAndMessage ==
    \A r \in Requests : \A i \in DOMAIN sent[r] :
        sent[r][i].status >= 400 => HasFields(sent[r][i], {"error", "message"})

\* C4, amended: every error response has a body with `error`; it has
\* `message` too unless it is the 404 handler's, whose body is `error` alone.
C4_ErrorsHaveMessageExceptNoRoute ==
    \A r \in Requests : \A i \in DOMAIN sent[r] :
        sent[r][i].status >= 400 =>
            IF "notFoundHandler" \in invoked[r]
            THEN HasFields(sent[r][i], {"error"}) /\ DOMAIN sent[r][i].body = {"error"}
            ELSE HasFields(sent[r][i], {"error", "message"})

C4_Witness ==
    \E r \in Requests :
        /\ settled[r].kind = "rejected"
        /\ settled[r] = Rejected(HttpError(401, EmptyObj))
        /\ Len(sent[r]) = 1
        /\ sent[r][1].status = 401
        /\ sent[r][1].body.message = Str("cannot get weather data")

\* C5: every request whose handling has ended got exactly one response.
C5_ExactlyOneResponse ==
    \A r \in Requests : Finished(r) => Len(sent[r]) = 1

\* C6: a success response of a weather route has the route's location name
\* as city, and one forecast per slot of the time sequence of the matched
\* location's first element, with that slot's start and end time, in order.
C6_ForecastsFollowFirstElement ==
    \A r \in Requests :
        Succeeded(r) =>
            LET data == sent[r][1].body.data
                times == TimesOf(ElementsOf(MatchedLocation(DataOf(r), WeatherRoutes[path[r]]))[1])
            IN  /\ sent[r][1].body.success
                /\ data.city = Str(WeatherRoutes[path[r]])
                /\ Len(data.forecasts) = Len(times)
                /\ \A i \in DOMAIN times :
                       /\ data.forecasts[i].startTime = Get(times[i], "startTime")
                       /\ data.forecasts[i].endTime = Get(times[i], "endTime")

C6_Witness ==
    \E r \in Requests :
        /\ path[r] = "/api/weather/kaohsiung"
        /\ Succeeded(r)
        /\ DataOf(r) = Dataset(Arr(<<Location("Kaohsiung City",
                                              <<Element("MaxT", 2, 1), Element("Wx", 2, 2)>>)>>))
        /\ Len(sent[r][1].body.data.forecasts) = 2
        /\ sent[r][1].body.data.forecasts[2].startTime = Str("start-1-1")

\* The value a field has after the dispatch over the elements of location l
\* at slot i: the raw value of the last element of that name, with the
\* suffix; the empty string when no element has the name.
FieldOf(l, i, elementName, suffix) ==
    LET elements == ElementsOf(l)
        named == {e \in DOMAIN elements :
                      StrictEq(Get(elements[e], "elementName"), Str(elementName))}
    IN  IF named = {} THEN Str("")
        ELSE LET last == CHOOSE e \in named : \A o \in named : o <= e
                 raw == Get(Get(TimesOf(elements[last])[i], "parameter"), "parameterName")
             IN  Str(raw.v \o suffix)

\* C7: in every period of a success response each field is what the dispatch
\* on the element names gives: Wx the raw value, PoP the raw value and "%",
\* MinT and MaxT the raw value and the degree suffix, CI and WS the raw value;
\* a field no element names is the empty string, and an element of another
\* name changes nothing.
C7_FieldsFollowDispatch ==
    \A r \in Requests :
        Succeeded(r) =>
            LET l == MatchedLocation(DataOf(r), WeatherRoutes[path[r]])
                forecasts == sent[r][1].body.data.forecasts
            IN  \A i \in DOMAIN forecasts :
                    /\ forecasts[i].weather = FieldOf(l, i, "Wx", "")
                    /\ forecasts[i].rain = FieldOf(l, i, "PoP", "%")
                    /\ forecasts[i].minTemp = FieldOf(l, i, "MinT", "degC")
                    /\ forecasts[i].maxTemp = FieldOf(l, i, "MaxT", "degC")
                    /\ forecasts[i].comfort = FieldOf(l, i, "CI", "")
                    /\ forecasts[i].windSpeed = FieldOf(l, i, "WS", "")

C7_Witness ==
    \E r \in Requests :
        /\ Succeeded(r)
        /\ DataOf(r) = Dataset(Arr(<<Location("Taichung City",
                                              <<Element("UVI", 1, 1), Element("PoP", 1, 2)>>)>>))
        /\ sent[r][1].body.data.forecasts[1].rain = Str("20%")
        /\ sent[r][1].body.data.forecasts[1].weather = Str("")

\* C8: once a weather handler has been invoked with the credential set,
\* exactly one upstream call has been issued for its request, at every point
\* from then on and whatever the call settles with.
C8_ExactlyOneCall ==
    \A r \in Requests :
        (WeatherHandled(r) /\ Truthy(CWA_API_KEY)) => calls[r] = 1

C8_Witness ==
    \E r \in Requests :
        /\ Truthy(CWA_API_KEY)
        /\ pc[r] = "done"
        /\ settled[r] = Rejected(NetworkError)
        /\ calls[r] = 1

\* The matched location cannot be transformed: it has no element list or an
\* empty one, or an element with fewer slots than the first element.
Malformed(l) ==
    \/ ElementsOf(l) = <<>>
    \/ \E e \in DOMAIN ElementsOf(l) :
           Len(TimesOf(ElementsOf(l)[e])) < Len(TimesOf(ElementsOf(l)[1]))

\* C9: a weather request whose call failed without a response, or returned a
\* matched location that is malformed, is answered with the generic 500 and
\* nothing else; a success response is sent only for a matched location that
\* is well formed.
C9_OtherFailuresAreGeneric500 ==
    \A r \in Requests :
        (WeatherHandled(r) /\ settled[r].kind # "none") =>
            /\ (settled[r].kind = "rejected" /\ settled[r].error.response.t = "undefined")
                   => (pc[r] = "done" /\ sent[r] = <<GenericErrorResponse>>)
            /\ (/\ settled[r].kind = "resolved"
                /\ HasMatch(DataOf(r), WeatherRoutes[path[r]])
                /\ Malformed(MatchedLocation(DataOf(r), WeatherRoutes[path[r]])))
                   => (pc[r] = "done" /\ sent[r] = <<GenericErrorResponse>>)
            /\ Succeeded(r) =>
                   /\ settled[r].kind = "resolved"
                   /\ HasMatch(DataOf(r), WeatherRoutes[path[r]])
                   /\ ~Malformed(MatchedLocation(DataOf(r), WeatherRoutes[path[r]]))

C9_Witness ==
    \E r \in Requests :
        /\ settled[r].kind = "resolved"
        /\ DataOf(r) = Dataset(Arr(<<Location("Yilan County",
                                              <<Element("Wx", 2, 1), Element("UVI", 1, 2)>>)>>))
        /\ path[r] = "/api/weather/yilan"
        /\ sent[r] = <<GenericErrorResponse>>

\* The responses a weather request on path p gets when it is the only
\* request and its call settles with result.
AloneResponses(p, result) ==
    LET outcome == AfterAwait(WeatherRoutes[p], result) IN
    IF outcome.kind = "sent" THEN <<outcome.res>>
    ELSE IF forwardsRejections THEN <<ErrorMiddlewareResponse(outcome.err)>>
    ELSE <<>>

\* C10: whatever the other requests do, the responses of a weather request
\* are those it gets alone from its own path and its own upstream result,
\* and there are none before its own call has settled.
C10_ResponseOfOwnResult ==
    \A r \in Requests :
        (WeatherHandled(r) /\ Truthy(CWA_API_KEY)) =>
            /\ Finished(r) => sent[r] = AloneResponses(path[r], settled[r])
            /\ pc[r] = "awaiting" => (sent[r] = <<>> /\ settled[r] = NotSettled)

C10_Witness ==
    \E r, q \in Requests :
        /\ r # q
        /\ path[r] = "/api/weather/taipei" /\ path[q] = "/api/weather/yilan"
        /\ Succeeded(r) /\ Succeeded(q)
        /\ settled[r] # settled[q]
        /\ sent[r][1].body.data.city = Str("Taipei City")
        /\ sent[q][1].body.data.city = Str("Yilan County")

====
